---- MODULE Spec2Model ----
(***************************************************************************)
(* Model of src/architecture.cpp: a Building with four double fields and   *)
(* an owned plan of polymorphic Improvements.                              *)
(*                                                                         *)
(* The fields are IEEE-754 binary64 values.  A double is a record          *)
(*     [cls, neg, mant, exp]                                               *)
(* with cls "fin" (the finite value (-1)^neg * mant * 2^exp), "inf" (the   *)
(* infinity of sign neg) or "nan".  mant is a natural number written in    *)
(* limbs of LimbBits bits (least significant first, no leading zero limb); *)
(* a finite double is kept canonical: mant is odd, or mant is empty and    *)
(* exp is 0 (the zero of sign neg).  Every operation computes the exact    *)
(* result and rounds it once, to nearest with ties to even, to MantBits    *)
(* significant bits and to a multiple of 2^MinExp (gradual underflow); a   *)
(* rounded result of 2^MaxExp or more is an infinity.  All NaNs are one    *)
(* value.                                                                  *)
(***************************************************************************)
EXTENDS Integers, Sequences, FiniteSets, TLC

\* ------------------------------------------------------------------------
\* Natural numbers of any size
\* ------------------------------------------------------------------------
LimbBits == 15
Base == 32768

Limb(a, i) == IF i <= Len(a) THEN a[i] ELSE 0

RECURSIVE NatNorm(_)
NatNorm(a) ==
    IF a = <<>> THEN <<>>
    ELSE IF a[Len(a)] = 0 THEN NatNorm(SubSeq(a, 1, Len(a) - 1))
    ELSE a

RECURSIVE NatFromInt(_)
NatFromInt(n) == IF n = 0 THEN <<>> ELSE <<n % Base>> \o NatFromInt(n \div Base)

RECURSIVE NatAddFrom(_, _, _, _)
NatAddFrom(a, b, i, c) ==
    IF i > Len(a) /\ i > Len(b)
    THEN (IF c = 0 THEN <<>> ELSE <<c>>)
    ELSE LET s == Limb(a, i) + Limb(b, i) + c
         IN  <<s % Base>> \o NatAddFrom(a, b, i + 1, s \div Base)

NatAdd(a, b) == NatAddFrom(a, b, 1, 0)

\* a - b for a >= b
RECURSIVE NatSubFrom(_, _, _, _)
NatSubFrom(a, b, i, c) ==
    IF i > Len(a) THEN <<>>
    ELSE LET s == a[i] - Limb(b, i) - c
         IN  IF s < 0 THEN <<s + Base>> \o NatSubFrom(a, b, i + 1, 1)
             ELSE <<s>> \o NatSubFrom(a, b, i + 1, 0)

NatSub(a, b) == NatNorm(NatSubFrom(a, b, 1, 0))

\* -1, 0, 1 as a < b, a = b, a > b
RECURSIVE NatCmpFrom(_, _, _)
NatCmpFrom(a, b, i) ==
    IF i = 0 THEN 0
    ELSE IF a[i] < b[i] THEN -1
    ELSE IF a[i] > b[i] THEN 1
    ELSE NatCmpFrom(a, b, i - 1)

NatCmp(a, b) ==
    IF Len(a) < Len(b) THEN -1
    ELSE IF Len(a) > Len(b) THEN 1
    ELSE NatCmpFrom(a, b, Len(a))

RECURSIVE NatMulLimbFrom(_, _, _, _)
NatMulLimbFrom(a, m, i, c) ==
    IF i > Len(a) THEN (IF c = 0 THEN <<>> ELSE <<c>>)
    ELSE LET s == a[i] * m + c
         IN  <<s % Base>> \o NatMulLimbFrom(a, m, i + 1, s \div Base)

NatMulLimb(a, m) == IF m = 0 THEN <<>> ELSE NatMulLimbFrom(a, m, 1, 0)

Zeros(k) == [i \in 1..k |-> 0]

NatShiftLimbs(a, k) == IF a = <<>> THEN <<>> ELSE Zeros(k) \o a

RECURSIVE NatMulFrom(_, _, _)
NatMulFrom(a, b, j) ==
    IF j > Len(b) THEN <<>>
    ELSE NatAdd(NatShiftLimbs(NatMulLimb(a, b[j]), j - 1), NatMulFrom(a, b, j + 1))

NatMul(a, b) == NatMulFrom(a, b, 1)

RECURSIVE BitLenSmall(_)
BitLenSmall(n) == IF n = 0 THEN 0 ELSE 1 + BitLenSmall(n \div 2)

NatBitLen(a) == IF a = <<>> THEN 0 ELSE (Len(a) - 1) * LimbBits + BitLenSmall(a[Len(a)])

NatShiftLeft(a, k) == NatShiftLimbs(NatMulLimb(a, 2 ^ (k % LimbBits)), k \div LimbBits)

\* floor(a / 2^k)
NatShiftRight(a, k) ==
    LET q == k \div LimbBits
        r == k % LimbBits
        lo == 2 ^ r
        hi == 2 ^ (LimbBits - r)
    IN  IF q >= Len(a) THEN <<>>
        ELSE NatNorm([i \in 1..(Len(a) - q) |->
                         (a[i + q] \div lo) + (Limb(a, i + q + 1) % lo) * hi])

NatPow2(k) == NatShiftLeft(<<1>>, k)

NatIsOdd(a) == a /= <<>> /\ a[1] % 2 = 1

\* the number of zero bits below the lowest one bit, of n > 0 and of a /= <<>>
RECURSIVE TrailingZerosSmall(_)
TrailingZerosSmall(n) == IF n % 2 = 1 THEN 0 ELSE 1 + TrailingZerosSmall(n \div 2)

RECURSIVE NatTrailingZerosFrom(_, _)
NatTrailingZerosFrom(a, i) ==
    IF a[i] = 0 THEN LimbBits + NatTrailingZerosFrom(a, i + 1)
    ELSE TrailingZerosSmall(a[i])

NatTrailingZeros(a) == NatTrailingZerosFrom(a, 1)

\* floor(a / d) for a small divisor d, and the remainder
RECURSIVE NatDivSmallFrom(_, _, _, _)
NatDivSmallFrom(a, d, i, c) ==
    IF i = 0 THEN [quot |-> <<>>, rem |-> c]
    ELSE LET s == c * Base + a[i]
             r == NatDivSmallFrom(a, d, i - 1, s % d)
         IN  [quot |-> r.quot \o <<s \div d>>, rem |-> r.rem]

NatDivSmall(a, d) ==
    LET r == NatDivSmallFrom(a, d, Len(a), 0)
    IN  [quot |-> NatNorm(r.quot), rem |-> r.rem]

\* floor(n / 2^d) rounded to nearest, ties to even, for d >= 1
RoundNat(n, d) ==
    LET q == NatShiftRight(n, d)
        rest == NatSub(n, NatShiftLeft(q, d))
        c == NatCmp(rest, NatPow2(d - 1))
        up == c > 0 \/ (c = 0 /\ NatIsOdd(q))
    IN  IF up THEN NatAdd(q, <<1>>) ELSE q

\* ------------------------------------------------------------------------
\* double
\* ------------------------------------------------------------------------
MantBits == 53
MinExp == -1074
MaxExp == 1024

DNaN == [cls |-> "nan", neg |-> FALSE, mant |-> <<>>, exp |-> 0]

DInf(neg) == [cls |-> "inf", neg |-> neg, mant |-> <<>>, exp |-> 0]

\* the zero of sign neg
DZeroOf(neg) == [cls |-> "fin", neg |-> neg, mant |-> <<>>, exp |-> 0]

DZero == DZeroOf(FALSE)

IsNaN(x) == x.cls = "nan"

IsInf(x) == x.cls = "inf"

IsZero(x) == x.cls = "fin" /\ x.mant = <<>>

\* (-1)^neg * mant * 2^exp, canonical; no rounding
MkDouble(neg, mant, exp) ==
    IF mant = <<>> THEN DZeroOf(neg)
    ELSE LET tz == NatTrailingZeros(mant)
         IN  [cls |-> "fin", neg |-> neg, mant |-> NatShiftRight(mant, tz), exp |-> exp + tz]

\* the exponent of the first power of two above the magnitude of a finite x /= 0
Top(x) == x.exp + NatBitLen(x.mant)

\* The double nearest to (-1)^neg * mant * 2^exp: the result of an operation
\* whose exact result that is.
DRound(neg, mant, exp) ==
    LET unbounded == exp + NatBitLen(mant) - MantBits
        quantum == IF unbounded > MinExp THEN unbounded ELSE MinExp
        m == IF quantum > exp THEN RoundNat(mant, quantum - exp) ELSE mant
        e == IF quantum > exp THEN quantum ELSE exp
    IN  IF mant = <<>> THEN DZeroOf(neg)
        ELSE IF e + NatBitLen(m) > MaxExp THEN DInf(neg)
        ELSE MkDouble(neg, m, e)

\* an integer of sign neg and magnitude n held in a double, n below 2^MantBits
DOfInteger(neg, n) == IF n = <<>> THEN DZero ELSE MkDouble(neg, n, 0)

\* the magnitude of an int (that of INT_MIN is not an int)
IntMag(n) == IF n < 0 THEN NatAdd(NatFromInt(-(n + 1)), <<1>>) ELSE NatFromInt(n)

\* int -> double (exact: an int has at most 32 significant bits)
DFromInt(n) == DOfInteger(n < 0, IntMag(n))

\* The double a decimal literal num/den denotes: the quotient is taken to
\* LitLimbs limbs after the point with a sticky bit below, then rounded once.
LitLimbs == 5

DLit(num, den) ==
    LET r == NatDivSmall(NatShiftLimbs(NatFromInt(num), LitLimbs), den)
        sticky == IF r.rem = 0 THEN <<>> ELSE <<1>>
    IN  DRound(FALSE, NatAdd(NatMulLimb(r.quot, 2), sticky), -(LitLimbs * LimbBits) - 1)

\* the floating literals of the source
D0_02 == DLit(2, 100)

D0_03 == DLit(3, 100)

D0_05 == DLit(5, 100)

D0_1 == DLit(1, 10)

D0_15 == DLit(15, 100)

D1_0 == DLit(1, 1)

D100_0 == DLit(100, 1)

\* -1, 0, 1 as |x| < |y|, |x| = |y|, |x| > |y|, for x and y not NaN
MagCmp(x, y) ==
    IF IsInf(x) \/ IsInf(y)
    THEN (IF IsInf(x) /\ IsInf(y) THEN 0 ELSE IF IsInf(x) THEN 1 ELSE -1)
    ELSE IF x.mant = <<>> \/ y.mant = <<>>
    THEN (IF x.mant = y.mant THEN 0 ELSE IF x.mant = <<>> THEN -1 ELSE 1)
    ELSE IF Top(x) /= Top(y) THEN (IF Top(x) < Top(y) THEN -1 ELSE 1)
    ELSE LET e == IF x.exp < y.exp THEN x.exp ELSE y.exp
         IN  NatCmp(NatShiftLeft(x.mant, x.exp - e), NatShiftLeft(y.mant, y.exp - e))

\* x < y: false when either is NaN, and for the two zeros
DLess(x, y) ==
    IF IsNaN(x) \/ IsNaN(y) THEN FALSE
    ELSE IF IsZero(x) /\ IsZero(y) THEN FALSE
    ELSE IF x.neg /= y.neg THEN x.neg
    ELSE IF x.neg THEN MagCmp(x, y) > 0
    ELSE MagCmp(x, y) < 0

\* x <= y
DLeq(x, y) == ~IsNaN(x) /\ ~IsNaN(y) /\ ~DLess(y, x)

\* std::min(a, b): b if b < a, else a
DMin(a, b) == IF DLess(b, a) THEN b ELSE a

\* x + y for finite x and y, exact: the sum before it is rounded.  A zero
\* sum is -0 when both operands are negative and +0 otherwise.
DAddExact(x, y) ==
    LET e == IF x.exp < y.exp THEN x.exp ELSE y.exp
        mx == NatShiftLeft(x.mant, x.exp - e)
        my == NatShiftLeft(y.mant, y.exp - e)
        c == NatCmp(mx, my)
    IN  IF x.neg = y.neg THEN MkDouble(x.neg, NatAdd(mx, my), e)
        ELSE IF c = 0 THEN DZero
        ELSE IF c > 0 THEN MkDouble(x.neg, NatSub(mx, my), e)
        ELSE MkDouble(y.neg, NatSub(my, mx), e)

\* The operand y of an addition to x, both finite: a y that lies wholly
\* below the guard bits of x (less than a quarter of the unit in the last
\* place of x) acts on the rounded sum only by being there, and is taken as
\* one sticky bit of its sign below the guard bits.
Sticky(x, y) ==
    IF ~IsZero(x) /\ ~IsZero(y) /\ Top(y) < Top(x) - MantBits - 2
    THEN [y EXCEPT !.mant = <<1>>, !.exp = Top(x) - MantBits - 3]
    ELSE y

\* x + y
DAdd(x, y) ==
    IF IsNaN(x) \/ IsNaN(y) THEN DNaN
    ELSE IF IsInf(x) THEN (IF IsInf(y) /\ x.neg /= y.neg THEN DNaN ELSE x)
    ELSE IF IsInf(y) THEN y
    ELSE LET s == DAddExact(Sticky(y, x), Sticky(x, y)) IN DRound(s.neg, s.mant, s.exp)

\* x * y
DMul(x, y) ==
    IF IsNaN(x) \/ IsNaN(y) THEN DNaN
    ELSE IF IsInf(x) \/ IsInf(y)
    THEN (IF IsZero(x) \/ IsZero(y) THEN DNaN ELSE DInf(x.neg /= y.neg))
    ELSE DRound(x.neg /= y.neg, NatMul(x.mant, y.mant), x.exp + y.exp)

\* ------------------------------------------------------------------------
\* int
\* ------------------------------------------------------------------------
IntMax == 2147483647

\* What the build makes of a signed overflow, which the language leaves
\* undefined: "wrap" keeps the low 32 bits of the product (imul on a 32-bit
\* register), "wide" converts before it multiplies and so keeps the product.
Builds == {"wrap", "wide"}

\* the integer a * b, unbounded, held in a double
IntMulWide(a, b) ==
    DOfInteger((a < 0) /= (b < 0), NatMul(IntMag(a), IntMag(b)))

\* the whole number w is outside [INT_MIN, INT_MAX]
IntOverflows(w) ==
    \/ DLess(DFromInt(IntMax), w)
    \/ DLess(w, DOfInteger(TRUE, NatPow2(32 - 1)))

\* the int with the low 32 bits of the whole number w, in two's complement
IntWrap(w) ==
    LET n == NatShiftLeft(w.mant, w.exp)
        low == NatSub(n, NatShiftLeft(NatShiftRight(n, 32), 32))
        u == IF w.neg /\ low /= <<>> THEN NatSub(NatPow2(32), low) ELSE low
    IN  IF NatCmp(u, NatPow2(32 - 1)) >= 0
        THEN DOfInteger(TRUE, NatSub(NatPow2(32), u))
        ELSE DOfInteger(FALSE, u)

\* a * b on int operands under build bld, converted to double
IntMul(bld, a, b) ==
    LET w == IntMulWide(a, b)
    IN  IF IntOverflows(w) /\ bld = "wrap" THEN IntWrap(w) ELSE w

\* ------------------------------------------------------------------------
\* Building: a record of the four fields; the plan and the heap are state
\* ------------------------------------------------------------------------
Building(height_, cost_, efficiency_, aesthetic_) ==
    [height |-> height_, cost |-> cost_,
     energy_efficiency |-> efficiency_, aesthetic_value |-> aesthetic_]

setHeight(b, h) == [b EXCEPT !.height = h]

setCost(b, c) == [b EXCEPT !.cost = c]

\* setEfficiency with a lower clamp at 0 as well
setEfficiency_ClampsBelow(b, e) ==
    [b EXCEPT !.energy_efficiency =
        IF DLess(e, DZero) THEN DZero ELSE DMin(e, D100_0)]

setEfficiency(b, e) == [b EXCEPT !.energy_efficiency = DMin(e, D100_0)]

setAesthetic(b, a) == [b EXCEPT !.aesthetic_value = a]

\* ------------------------------------------------------------------------
\* Improvement variants
\* ------------------------------------------------------------------------
SolarPanels(area) == [kind |-> "SolarPanels", panel_area |-> area]

FacadeRenovation(level) == [kind |-> "FacadeRenovation", quality_level |-> level]

InsulationUpgrade(level) == [kind |-> "InsulationUpgrade", insulation_level |-> level]

WindowReplacement(count) == [kind |-> "WindowReplacement", window_count |-> count]

GreenRoof(a) == [kind |-> "GreenRoof", area |-> a]

\* SolarPanels::apply writing the efficiency without its setter
SolarPanelsApply_SkipsSetter(bld, b, i) ==
    LET boost == DMin(DMul(DFromInt(i.panel_area), D0_02), D1_0)
        b1 == [b EXCEPT !.energy_efficiency = DAdd(b.energy_efficiency, DMul(boost, DFromInt(20)))]
    IN  setCost(b1, DAdd(b1.cost, IntMul(bld, i.panel_area, 100)))

SolarPanelsApply(bld, b, i) ==
    LET boost == DMin(DMul(DFromInt(i.panel_area), D0_02), D1_0)
        b1 == setEfficiency(b, DAdd(b.energy_efficiency, DMul(boost, DFromInt(20))))
    IN  setCost(b1, DAdd(b1.cost, IntMul(bld, i.panel_area, 100)))

\* FacadeRenovation::apply storing the cost term instead of adding it
FacadeRenovationApply_SetsCost(bld, b, i) ==
    LET boost == DMin(DMul(DFromInt(i.quality_level), D0_1), D1_0)
        b1 == setAesthetic(b, DAdd(b.aesthetic_value, DMul(boost, DFromInt(15))))
    IN  setCost(b1, IntMul(bld, i.quality_level, 500))

\* FacadeRenovation::apply passing the efficiency through its setter
FacadeRenovationApply_Reclamps(bld, b, i) ==
    LET boost == DMin(DMul(DFromInt(i.quality_level), D0_1), D1_0)
        b1 == setAesthetic(b, DAdd(b.aesthetic_value, DMul(boost, DFromInt(15))))
        b2 == setEfficiency(b1, b1.energy_efficiency)
    IN  setCost(b2, DAdd(b2.cost, IntMul(bld, i.quality_level, 500)))

FacadeRenovationApply(bld, b, i) ==
    LET boost == DMin(DMul(DFromInt(i.quality_level), D0_1), D1_0)
        b1 == setAesthetic(b, DAdd(b.aesthetic_value, DMul(boost, DFromInt(15))))
    IN  setCost(b1, DAdd(b1.cost, IntMul(bld, i.quality_level, 500)))

\* InsulationUpgrade::apply with the rate of FacadeRenovation
InsulationUpgradeApply_WrongRate(bld, b, i) ==
    LET boost == DMin(DMul(DFromInt(i.insulation_level), D0_1), D1_0)
        b1 == setEfficiency(b, DAdd(b.energy_efficiency, DMul(boost, DFromInt(25))))
    IN  setCost(b1, DAdd(b1.cost, IntMul(bld, i.insulation_level, 400)))

InsulationUpgradeApply(bld, b, i) ==
    LET boost == DMin(DMul(DFromInt(i.insulation_level), D0_15), D1_0)
        b1 == setEfficiency(b, DAdd(b.energy_efficiency, DMul(boost, DFromInt(25))))
    IN  setCost(b1, DAdd(b1.cost, IntMul(bld, i.insulation_level, 400)))

WindowReplacementApply(bld, b, i) ==
    LET boost == DMin(DMul(DFromInt(i.window_count), D0_05), D1_0)
        b1 == setEfficiency(b, DAdd(b.energy_efficiency, DMul(boost, DFromInt(10))))
        b2 == setAesthetic(b1, DAdd(b1.aesthetic_value, DMul(boost, DFromInt(5))))
    IN  setCost(b2, DAdd(b2.cost, IntMul(bld, i.window_count, 300)))

GreenRoofApply(bld, b, i) ==
    LET efficiency_boost == DMin(DMul(i.area, D0_03), D1_0)
        aesthetic_boost == DMin(DMul(i.area, D0_02), D1_0)
        b1 == setEfficiency(b, DAdd(b.energy_efficiency, DMul(efficiency_boost, DFromInt(15))))
        b2 == setAesthetic(b1, DAdd(b1.aesthetic_value, DMul(aesthetic_boost, DFromInt(10))))
    IN  setCost(b2, DAdd(b2.cost, DMul(i.area, DFromInt(200))))

\* i->apply(b): the virtual call
Apply(bld, b, i) ==
    CASE i.kind = "SolarPanels" -> SolarPanelsApply(bld, b, i)
      [] i.kind = "FacadeRenovation" -> FacadeRenovationApply(bld, b, i)
      [] i.kind = "InsulationUpgrade" -> InsulationUpgradeApply(bld, b, i)
      [] i.kind = "WindowReplacement" -> WindowReplacementApply(bld, b, i)
      [] i.kind = "GreenRoof" -> GreenRoofApply(bld, b, i)

\* ------------------------------------------------------------------------
\* Inputs
\* ------------------------------------------------------------------------
MaxPlanLen == 2
MaxRenovateCalls == 1

\* Constructor arguments: those of the test EfficiencyCap, one with an
\* efficiency above the cap, and one with a negative efficiency, no cost and
\* a fractional aesthetic value.
CtorArgs ==
    { [height |-> DFromInt(20), cost |-> DFromInt(50000),
       efficiency |-> DFromInt(80), aesthetic |-> DFromInt(60)],
      [height |-> DFromInt(40), cost |-> DFromInt(120000),
       efficiency |-> DFromInt(150), aesthetic |-> DFromInt(85)],
      [height |-> DFromInt(18), cost |-> DZero,
       efficiency |-> DFromInt(-10), aesthetic |-> DLit(1, 2)] }

\* The improvements a plan is made of: every variant, with parameters below
\* and above the cap of the boost, a negative one, one whose cost term does
\* not fit an int, and a fractional area.
Catalogue ==
    { SolarPanels(1), SolarPanels(200), SolarPanels(-5),
      SolarPanels(IntMax \div 100 + 1),
      FacadeRenovation(8), InsulationUpgrade(6), WindowReplacement(10),
      GreenRoof(DLit(25, 2)) }

\* The vectors of n pointers a caller can pass: each element is a pointer to
\* a live Improvement, and one pointer may stand at several positions.  A
\* pointer is named by the first position it stands at.
PointerVectors(n) ==
    { v \in [1..n -> 1..n] : \A k \in 1..n : v[k] <= k /\ v[v[k]] = v[k] }

\* the pointers of the vector v
Pointers(v) == { v[k] : k \in 1..Len(v) }

\* the Improvements the pointers of v may point to
Heaps(v) == [Pointers(v) -> Catalogue]

\* Arguments of the setters: below, at and above the cap, an infinity and NaN
SetterArgs ==
    { DFromInt(-10), DLit(995, 10), DFromInt(100), DFromInt(150), DInf(FALSE), DNaN }

\* ------------------------------------------------------------------------
\* State
\* ------------------------------------------------------------------------
VARIABLES
    height, cost, energy_efficiency, aesthetic_value,  \* the Building's fields
    renovation_plan,   \* the Building's vector of Improvement pointers
    heap,              \* the Improvement each pointer points to
    released,          \* how many times each pointer was deleted
    pc,                \* "idle", "renovating" (inside renovate()), "destroyed",
                       \* "aborted" (the process died in the destructor)
    idx,               \* position of the loop of renovate() in the plan
    build,             \* what the build makes of a signed overflow
    ctor,              \* history: the constructor's arguments
    pre,               \* history: the fields when renovate() was called
    applied,           \* history: the plan positions applied by this call
    calls,             \* history: the calls of renovate() that returned
    last               \* history: the last setter called and its argument

vars == <<height, cost, energy_efficiency, aesthetic_value, renovation_plan,
          heap, released, pc, idx, build, ctor, pre, applied, calls, last>>

fields == <<height, cost, energy_efficiency, aesthetic_value>>

Self == Building(height, cost, energy_efficiency, aesthetic_value)

\* the fields become those of b
Store(b) ==
    /\ height' = b.height
    /\ cost' = b.cost
    /\ energy_efficiency' = b.energy_efficiency
    /\ aesthetic_value' = b.aesthetic_value

\* a constructor that passes the efficiency through its setter
Construct_Clamps(a) ==
    setEfficiency(Building(a.height, a.cost, a.efficiency, a.aesthetic), a.efficiency)

\* Building::Building: the fields are initialised from the arguments as they
\* are, the vector of pointers is copied
Construct(a) == Building(a.height, a.cost, a.efficiency, a.aesthetic)

InitWith(args, plan, objs, bld) ==
    /\ height = Construct(args).height
    /\ cost = Construct(args).cost
    /\ energy_efficiency = Construct(args).energy_efficiency
    /\ aesthetic_value = Construct(args).aesthetic_value
    /\ heap = objs
    /\ renovation_plan = plan
    /\ released = [p \in DOMAIN objs |-> 0]
    /\ pc = "idle"
    /\ idx = 0
    /\ build = bld
    /\ ctor = args
    /\ pre = Construct(args)
    /\ applied = <<>>
    /\ calls = 0
    /\ last = [op |-> "none", arg |-> DZero]

Init ==
    \E args \in CtorArgs, n \in 0..MaxPlanLen, bld \in Builds :
        \E plan \in PointerVectors(n) :
            \E objs \in Heaps(plan) : InitWith(args, plan, objs, bld)

\* ------------------------------------------------------------------------
\* renovate()
\* ------------------------------------------------------------------------
\* a loop that stops before the last element
RenovateHasNext_StopsEarly(plan, k) == k < Len(plan)

\* the range-for has an element left
RenovateHasNext(plan, k) == k <= Len(plan)

RenovateCall ==
    /\ pc = "idle"
    /\ calls < MaxRenovateCalls
    /\ pc' = "renovating"
    /\ idx' = 1
    /\ pre' = Self
    /\ applied' = <<>>
    /\ UNCHANGED <<fields, renovation_plan, heap, released, build, ctor, calls, last>>

\* the Improvement the plan holds at position k
PlanAt(k) == heap[renovation_plan[k]]

\* the loop moves on to the next element
Advance ==
    /\ idx' = idx + 1
    /\ applied' = Append(applied, idx)
    /\ UNCHANGED <<renovation_plan, heap, released, pc, build, ctor, pre, calls, last>>

\* One iteration of the loop: i->apply(*this), by the variant of *i.
ApplySolarPanels ==
    /\ pc = "renovating"
    /\ RenovateHasNext(renovation_plan, idx)
    /\ PlanAt(idx).kind = "SolarPanels"
    /\ Store(SolarPanelsApply(build, Self, PlanAt(idx)))
    /\ Advance

ApplyFacadeRenovation ==
    /\ pc = "renovating"
    /\ RenovateHasNext(renovation_plan, idx)
    /\ PlanAt(idx).kind = "FacadeRenovation"
    /\ Store(FacadeRenovationApply(build, Self, PlanAt(idx)))
    /\ Advance

ApplyInsulationUpgrade ==
    /\ pc = "renovating"
    /\ RenovateHasNext(renovation_plan, idx)
    /\ PlanAt(idx).kind = "InsulationUpgrade"
    /\ Store(InsulationUpgradeApply(build, Self, PlanAt(idx)))
    /\ Advance

ApplyWindowReplacement ==
    /\ pc = "renovating"
    /\ RenovateHasNext(renovation_plan, idx)
    /\ PlanAt(idx).kind = "WindowReplacement"
    /\ Store(WindowReplacementApply(build, Self, PlanAt(idx)))
    /\ Advance

ApplyGreenRoof ==
    /\ pc = "renovating"
    /\ RenovateHasNext(renovation_plan, idx)
    /\ PlanAt(idx).kind = "GreenRoof"
    /\ Store(GreenRoofApply(build, Self, PlanAt(idx)))
    /\ Advance

RenovateReturn ==
    /\ pc = "renovating"
    /\ ~RenovateHasNext(renovation_plan, idx)
    /\ pc' = "idle"
    /\ idx' = 0
    /\ calls' = calls + 1
    /\ UNCHANGED <<fields, renovation_plan, heap, released, build, ctor, pre, applied, last>>

\* ------------------------------------------------------------------------
\* ~Building()
\* ------------------------------------------------------------------------
\* What deleting a pointer a second time does, which the language leaves
\* undefined: "abort" ends the process at that delete (the virtual
\* destructor is called through freed memory, or the allocator detects the
\* double free), "twice" frees the object again and goes on.
DoubleDeletes == {"abort", "twice"}

\* the loop of ~Building from position k on: the deletes counted and how it ends
RECURSIVE DeleteAll(_, _, _, _)
DeleteAll(rel, plan, k, onDouble) ==
    IF k > Len(plan) THEN [released |-> rel, pc |-> "destroyed"]
    ELSE IF rel[plan[k]] >= 1 /\ onDouble = "abort" THEN [released |-> rel, pc |-> "aborted"]
    ELSE DeleteAll([rel EXCEPT ![plan[k]] = @ + 1], plan, k + 1, onDouble)

Destroy ==
    \E onDouble \in DoubleDeletes :
        /\ pc = "idle"
        /\ pc' = DeleteAll(released, renovation_plan, 1, onDouble).pc
        /\ released' = DeleteAll(released, renovation_plan, 1, onDouble).released
        /\ UNCHANGED <<fields, renovation_plan, heap, idx, build, ctor, pre, applied, calls, last>>

Next ==
    \/ RenovateCall
    \/ ApplySolarPanels
    \/ ApplyFacadeRenovation
    \/ ApplyInsulationUpgrade
    \/ ApplyWindowReplacement
    \/ ApplyGreenRoof
    \/ RenovateReturn
    \/ Destroy

Spec == Init /\ [][Next]_vars

\* ------------------------------------------------------------------------
\* The mutators, called from outside on a Building at rest
\* ------------------------------------------------------------------------
SetHeight ==
    \E h \in SetterArgs :
        /\ pc = "idle"
        /\ Store(setHeight(Self, h))
        /\ last' = [op |-> "setHeight", arg |-> h]
        /\ UNCHANGED <<renovation_plan, heap, released, pc, idx, build, ctor, pre, applied, calls>>

SetCost ==
    \E c \in SetterArgs :
        /\ pc = "idle"
        /\ Store(setCost(Self, c))
        /\ last' = [op |-> "setCost", arg |-> c]
        /\ UNCHANGED <<renovation_plan, heap, released, pc, idx, build, ctor, pre, applied, calls>>

SetEfficiency ==
    \E e \in SetterArgs :
        /\ pc = "idle"
        /\ Store(setEfficiency(Self, e))
        /\ last' = [op |-> "setEfficiency", arg |-> e]
        /\ UNCHANGED <<renovation_plan, heap, released, pc, idx, build, ctor, pre, applied, calls>>

SetAesthetic ==
    \E a \in SetterArgs :
        /\ pc = "idle"
        /\ Store(setAesthetic(Self, a))
        /\ last' = [op |-> "setAesthetic", arg |-> a]
        /\ UNCHANGED <<renovation_plan, heap, released, pc, idx, build, ctor, pre, applied, calls>>

InitSet == \E args \in CtorArgs : InitWith(args, <<>>, <<>>, "wrap")

NextSet ==
    \/ SetHeight
    \/ SetCost
    \/ SetEfficiency
    \/ SetAesthetic

SpecSet == InitSet /\ [][NextSet]_vars

\* ------------------------------------------------------------------------
\* Vocabulary of the properties
\* ------------------------------------------------------------------------
D100 == DFromInt(100)

\* the parameter of an Improvement, as a number
ParamOf(i) ==
    CASE i.kind = "SolarPanels" -> DFromInt(i.panel_area)
      [] i.kind = "FacadeRenovation" -> DFromInt(i.quality_level)
      [] i.kind = "InsulationUpgrade" -> DFromInt(i.insulation_level)
      [] i.kind = "WindowReplacement" -> DFromInt(i.window_count)
      [] i.kind = "GreenRoof" -> i.area

\* The table of the variants: the rate and the magnitude of the effect on
\* efficiency and on aesthetic value (magnitude 0: not affected), and the
\* cost of one unit of the parameter.
Effect(kind) ==
    CASE kind = "SolarPanels" ->
            [effRate |-> D0_02, effMag |-> 20, aesRate |-> DZero, aesMag |-> 0, unit |-> 100]
      [] kind = "FacadeRenovation" ->
            [effRate |-> DZero, effMag |-> 0, aesRate |-> D0_1, aesMag |-> 15, unit |-> 500]
      [] kind = "InsulationUpgrade" ->
            [effRate |-> D0_15, effMag |-> 25, aesRate |-> DZero, aesMag |-> 0, unit |-> 400]
      [] kind = "WindowReplacement" ->
            [effRate |-> D0_05, effMag |-> 10, aesRate |-> D0_05, aesMag |-> 5, unit |-> 300]
      [] kind = "GreenRoof" ->
            [effRate |-> D0_03, effMag |-> 15, aesRate |-> D0_02, aesMag |-> 10, unit |-> 200]

\* min(p * rate, 1.0) * magnitude
Gain(p, rate, mag) == DMul(DMin(DMul(p, rate), D1_0), DFromInt(mag))

\* x * y for finite x and y, exact: the product before it is rounded
DMulExact(x, y) == MkDouble(x.neg /= y.neg, NatMul(x.mant, y.mant), x.exp + y.exp)

\* parameter * unit cost, as a real number
CostTerm(i) == DMulExact(ParamOf(i), DFromInt(Effect(i.kind).unit))

\* the int product of the cost term exists (GreenRoof multiplies doubles)
CostTermFits(i) == i.kind = "GreenRoof" \/ ~IntOverflows(CostTerm(i))

\* x is a number and not an infinity
IsFinite(x) == x.cls = "fin"

NonNegative(x) == DLeq(DZero, x)

Negative(x) == DLess(x, DZero)

\* the term i->apply adds to the cost, as the code computes it: the int
\* product converted to double, for GreenRoof the double product
CostAdded(bld, i) ==
    CASE i.kind = "SolarPanels" -> IntMul(bld, i.panel_area, 100)
      [] i.kind = "FacadeRenovation" -> IntMul(bld, i.quality_level, 500)
      [] i.kind = "InsulationUpgrade" -> IntMul(bld, i.insulation_level, 400)
      [] i.kind = "WindowReplacement" -> IntMul(bld, i.window_count, 300)
      [] i.kind = "GreenRoof" -> DMul(i.area, DFromInt(200))

\* x + y is not rounded: the double sum of the finite x and y is their sum
AddsExactly(x, y) == IsFinite(x) /\ IsFinite(y) /\ DAdd(x, y) = DAddExact(x, y)

Positive(x) == DLess(DZero, x)

\* d is not zero and its magnitude is at least one unit in the last place of
\* the finite x
AtLeastUlp(d, x) ==
    \/ IsInf(d)
    \/ IsFinite(d) /\ ~IsZero(d) /\ (IsZero(x) \/ Top(x) - MantBits < Top(d))

\* this step is one iteration of the loop of renovate()
StepApplies == pc = "renovating" /\ idx' = idx + 1

\* the left fold of apply over the first n elements of objs, from b
RECURSIVE FoldApply(_, _, _, _)
FoldApply(bld, b, objs, n) ==
    IF n = 0 THEN b ELSE Apply(bld, FoldApply(bld, b, objs, n - 1), objs[n])

\* the Improvements of the plan, in order
PlanObjects == [k \in 1..Len(renovation_plan) |-> heap[renovation_plan[k]]]

\* no addition of i->apply(b) is rounded
ApplyExact(bld, b, i) ==
    LET t == Effect(i.kind)
    IN  /\ t.effMag > 0 =>
                AddsExactly(b.energy_efficiency, Gain(ParamOf(i), t.effRate, t.effMag))
        /\ t.aesMag > 0 =>
                AddsExactly(b.aesthetic_value, Gain(ParamOf(i), t.aesRate, t.aesMag))
        /\ AddsExactly(b.cost, CostAdded(bld, i))

\* no addition of the first n applies of renovate() on objs, from b, is rounded
RECURSIVE FoldExact(_, _, _, _)
FoldExact(bld, b, objs, n) ==
    \/ n = 0
    \/ /\ FoldExact(bld, b, objs, n - 1)
       /\ ApplyExact(bld, FoldApply(bld, b, objs, n - 1), objs[n])

\* how far renovate() has come: all of the plan once it has returned
Done == IF pc = "renovating" THEN idx - 1 ELSE Len(renovation_plan)

Started == pc = "renovating" \/ calls >= 1

\* renovate() has been called and has returned
Returned == pc = "idle" /\ calls >= 1

\* ------------------------------------------------------------------------
\* Properties
\* ------------------------------------------------------------------------

\* C1: once renovate() has been called, whatever it has applied so far (also
\* nothing, also only improvements that leave efficiency alone), the
\* efficiency is at most 100, for any constructor arguments.
C1_EfficiencyAtMost100 == Started => DLeq(energy_efficiency, D100)

\* C2 as stated: one apply never lowers the cost, whatever the parameter.
C2_CostNeverDecreases == [][StepApplies => DLeq(cost, cost')]_vars

\* C2, amended: one apply adds to a finite cost the term the code computes
\* (the int product parameter * unit cost, for GreenRoof the double product).
\* The cost does not fall when the term is not negative; it does not rise
\* when the term is negative, and falls when the term is at least one unit
\* in the last place of the cost.  The term has the sign of the parameter
\* when the int product does not overflow (always for GreenRoof); when it
\* overflows the term is what the build makes of it.
C2_CostFollowsTerm ==
    [][(StepApplies /\ IsFinite(cost)) =>
        LET i == PlanAt(idx)
            t == CostAdded(build, i)
        IN  /\ cost' = DAdd(cost, t)
            /\ NonNegative(t) => DLeq(cost, cost')
            /\ Negative(t) =>
                    /\ DLeq(cost', cost)
                    /\ AtLeastUlp(t, cost) => DLess(cost', cost)
            /\ (CostTermFits(i) /\ NonNegative(ParamOf(i))) => NonNegative(t)
            /\ (CostTermFits(i) /\ Negative(ParamOf(i))) => Negative(t)
            /\ (build = "wrap" /\ ~CostTermFits(i)) => t = IntWrap(CostTerm(i))
            /\ (build = "wide" /\ ~CostTermFits(i)) => t = CostTerm(i)
    ]_vars

\* renovate() has applied an Improvement whose cost term is positive, and
\* the cost has grown, and then one whose cost term is negative, and the
\* cost has fallen
C2_Witness ==
    /\ pc = "renovating"
    /\ idx = 3
    /\ Positive(CostAdded(build, PlanAt(1)))
    /\ DLess(pre.cost, FoldApply(build, pre, PlanObjects, 1).cost)
    /\ Negative(CostAdded(build, PlanAt(2)))
    /\ DLess(cost, FoldApply(build, pre, PlanObjects, 1).cost)

\* C3: after renovate() on an empty plan the four fields are the arguments
\* of the constructor.
C3_EmptyPlanUnchanged ==
    (renovation_plan = <<>> /\ Started) =>
        /\ height = ctor.height
        /\ cost = ctor.cost
        /\ energy_efficiency = ctor.efficiency
        /\ aesthetic_value = ctor.aesthetic

\* renovate() has returned on an empty plan
C3_Witness == renovation_plan = <<>> /\ calls = 1 /\ pc = "idle"

\* C4: the destruction of the Building completes, and once the Building is
\* destroyed every Improvement of its plan has been deleted exactly once,
\* and none is deleted before; for any vector of pointers, and whether or
\* not renovate() has run.
C4_ReleasedExactlyOnce ==
    /\ pc /= "aborted"
    /\ \A p \in DOMAIN heap : released[p] = (IF pc = "destroyed" THEN 1 ELSE 0)

\* C5: renovate() applies the plan positions 1, 2, ... in this order, each
\* to the state the one before left, and when it returns it has applied all
\* of them: the fields are the left fold of apply over the plan.
C5_InOrderFold ==
    Started =>
        /\ applied = [k \in 1..Done |-> k]
        /\ Self = FoldApply(build, pre, PlanObjects, Done)

\* renovate() has returned on a plan of two Improvements of different variants
C5_Witness ==
    /\ pc = "idle"
    /\ calls = 1
    /\ Len(renovation_plan) >= 2
    /\ PlanAt(1).kind /= PlanAt(2).kind
    /\ applied = <<1, 2>> \o [k \in 1..(Len(renovation_plan) - 2) |-> k + 2]

\* C6 as stated: one apply adds min(p * rate, 1.0) * magnitude to each
\* attribute its variant affects, by the table, efficiency then capped at
\* 100; no attribute rises by more than its magnitude; and for p > 0 an
\* affected attribute rises strictly (efficiency when it was below 100).
C6_GainWithinMagnitude ==
    [][StepApplies =>
        LET i == PlanAt(idx)
            t == Effect(i.kind)
            ge == Gain(ParamOf(i), t.effRate, t.effMag)
            ga == Gain(ParamOf(i), t.aesRate, t.aesMag)
        IN  /\ t.effMag > 0 => energy_efficiency' = DMin(DAdd(energy_efficiency, ge), D100)
            /\ t.aesMag > 0 => aesthetic_value' = DAdd(aesthetic_value, ga)
            /\ DLeq(energy_efficiency', DAddExact(energy_efficiency, DFromInt(t.effMag)))
            /\ DLeq(aesthetic_value', DAddExact(aesthetic_value, DFromInt(t.aesMag)))
            /\ (Positive(ParamOf(i)) /\ t.aesMag > 0) => DLess(aesthetic_value, aesthetic_value')
            /\ (Positive(ParamOf(i)) /\ t.effMag > 0 /\ DLess(energy_efficiency, D100))
                    => DLess(energy_efficiency, energy_efficiency')
    ]_vars

\* C6, amended: on finite values, one apply adds the double
\* d = min(p * rate, 1.0) * magnitude to each attribute its variant affects,
\* by the table, efficiency then capped at 100; d is at most the magnitude
\* and the new value is at most the double nearest to old + magnitude; and
\* for p > 0 an affected attribute rises strictly (efficiency when it was
\* below 100) when d is at least one unit in the last place of the old value.
C6_GainRounded ==
    [][(/\ StepApplies
        /\ IsFinite(ParamOf(PlanAt(idx)))
        /\ IsFinite(energy_efficiency)
        /\ IsFinite(aesthetic_value)) =>
        LET i == PlanAt(idx)
            t == Effect(i.kind)
            ge == Gain(ParamOf(i), t.effRate, t.effMag)
            ga == Gain(ParamOf(i), t.aesRate, t.aesMag)
        IN  /\ t.effMag > 0 => energy_efficiency' = DMin(DAdd(energy_efficiency, ge), D100)
            /\ t.aesMag > 0 => aesthetic_value' = DAdd(aesthetic_value, ga)
            /\ DLeq(ge, DFromInt(t.effMag))
            /\ DLeq(ga, DFromInt(t.aesMag))
            /\ DLeq(energy_efficiency', DAdd(energy_efficiency, DFromInt(t.effMag)))
            /\ DLeq(aesthetic_value', DAdd(aesthetic_value, DFromInt(t.aesMag)))
            /\ (Positive(ParamOf(i)) /\ t.aesMag > 0 /\ AtLeastUlp(ga, aesthetic_value))
                    => DLess(aesthetic_value, aesthetic_value')
            /\ (/\ Positive(ParamOf(i))
                /\ t.effMag > 0
                /\ DLess(energy_efficiency, D100)
                /\ AtLeastUlp(ge, energy_efficiency))
                    => DLess(energy_efficiency, energy_efficiency')
    ]_vars

\* an apply at the cap of the boost has raised the efficiency by more than
\* the magnitude of its variant: the sum was rounded upwards
C6_Witness ==
    /\ pc = "renovating"
    /\ idx = 3
    /\ Effect(PlanAt(2).kind).effMag > 0
    /\ Positive(ParamOf(PlanAt(2)))
    /\ DLess(energy_efficiency, D100)
    /\ DLess(DAddExact(FoldApply(build, pre, PlanObjects, 1).energy_efficiency,
                       DFromInt(Effect(PlanAt(2).kind).effMag)),
             energy_efficiency)

\* the sum of parameter * unit cost over the first n elements of objs
RECURSIVE SumCostTerms(_, _)
SumCostTerms(objs, n) ==
    IF n = 0 THEN DZero ELSE DAddExact(SumCostTerms(objs, n - 1), CostTerm(objs[n]))

\* C7: after renovate() the cost is the cost before plus the sum over the
\* plan of parameter * unit cost, for any plan.
C7_CostIsSum == Started => cost = DAddExact(pre.cost, SumCostTerms(PlanObjects, Done))

\* C8: setEfficiency(e) stores 100 for e above 100 and e itself otherwise,
\* negative or not; the other setters store their argument; every setter can
\* be called and changes no field but its own.
C8_Setters ==
    [][/\ last'.op = "setHeight" =>
            /\ height' = last'.arg
            /\ UNCHANGED <<cost, energy_efficiency, aesthetic_value>>
       /\ last'.op = "setCost" =>
            /\ cost' = last'.arg
            /\ UNCHANGED <<height, energy_efficiency, aesthetic_value>>
       /\ last'.op = "setEfficiency" =>
            /\ energy_efficiency' = (IF DLess(D100, last'.arg) THEN D100 ELSE last'.arg)
            /\ UNCHANGED <<height, cost, aesthetic_value>>
       /\ last'.op = "setAesthetic" =>
            /\ aesthetic_value' = last'.arg
            /\ UNCHANGED <<height, cost, energy_efficiency>>
    ]_vars

\* setEfficiency has stored a negative value as it is
C8_Witness ==
    /\ last.op = "setEfficiency"
    /\ DLess(last.arg, DZero)
    /\ energy_efficiency = last.arg

\* C9: no step changes the height; an apply of SolarPanels or of
\* InsulationUpgrade leaves the aesthetic value alone, and an apply of
\* FacadeRenovation leaves the efficiency alone, also one above 100.
C9_Frames ==
    [][/\ height' = height
       /\ StepApplies =>
            /\ PlanAt(idx).kind \in {"SolarPanels", "InsulationUpgrade"}
                    => aesthetic_value' = aesthetic_value
            /\ PlanAt(idx).kind = "FacadeRenovation"
                    => energy_efficiency' = energy_efficiency
    ]_vars

\* FacadeRenovation was applied to a Building whose efficiency is above 100,
\* and it still is
C9_Witness ==
    /\ pc = "renovating"
    /\ idx = 2
    /\ PlanAt(1).kind = "FacadeRenovation"
    /\ DLess(D100, energy_efficiency)

\* the permutations of 1..n
Perms(n) == { f \in [1..n -> 1..n] : \A j, k \in 1..n : f[j] = f[k] => j = k }

\* the fields after renovate() on the plan reordered by f
Permuted(f) ==
    FoldApply(build, pre, [k \in 1..Len(renovation_plan) |-> PlanObjects[f[k]]],
              Len(renovation_plan))

AllNonNegative == \A k \in 1..Len(renovation_plan) : NonNegative(ParamOf(PlanAt(k)))

\* the plan reordered by f
Reordered(f) == [k \in 1..Len(renovation_plan) |-> PlanObjects[f[k]]]

\* no addition of renovate() on the plan reordered by f is rounded
PermutedExact(f) == FoldExact(build, pre, Reordered(f), Len(renovation_plan))

\* C10 as stated: with no negative parameter, renovate() leaves the same
\* four fields for every order of the plan.
C10_OrderIndependent ==
    (Returned /\ AllNonNegative) =>
        \A f \in Perms(Len(renovation_plan)) : Permuted(f) = Self

\* C10, amended: with no negative parameter, renovate() leaves the same four
\* fields for every order of the plan in which, as in the plan itself, no
\* addition of an apply is rounded.
C10_OrderIndependentWhenExact ==
    (/\ Returned
     /\ AllNonNegative
     /\ FoldExact(build, pre, PlanObjects, Len(renovation_plan))) =>
        \A f \in Perms(Len(renovation_plan)) : PermutedExact(f) => Permuted(f) = Self

\* renovate() has returned on a plan of two Improvements of different
\* variants that both raise the efficiency, none negative; no addition is
\* rounded in either order, the efficiency started below the cap, and the
\* two gains together pass it: the clamp has acted
C10_Witness ==
    /\ calls = 1
    /\ pc = "idle"
    /\ Len(renovation_plan) = 2
    /\ AllNonNegative
    /\ PlanAt(1).kind /= PlanAt(2).kind
    /\ Effect(PlanAt(1).kind).effMag > 0
    /\ Effect(PlanAt(2).kind).effMag > 0
    /\ PermutedExact(<<1, 2>>)
    /\ PermutedExact(<<2, 1>>)
    /\ DLess(pre.energy_efficiency, D100)
    /\ DLess(D100,
             DAddExact(DAddExact(pre.energy_efficiency,
                                 Gain(ParamOf(PlanAt(1)), Effect(PlanAt(1).kind).effRate,
                                      Effect(PlanAt(1).kind).effMag)),
                       Gain(ParamOf(PlanAt(2)), Effect(PlanAt(2).kind).effRate,
                            Effect(PlanAt(2).kind).effMag)))
    /\ energy_efficiency = D100

====
